---- MODULE Spec2Model ----
(*****************************************************************************)
(* Model of BlueGuard's server-side services: the telemetry stream           *)
(* manager (server/services/iot-service.ts: device registry, per-device      *)
(* recurring timers, reading synthesizer, threshold engine, subscriber       *)
(* hub) and the geographic analysis functions                                *)
(* (server/services/geo-analytics-service.ts).                               *)
(*                                                                           *)
(* Several specifications share the module's variables:                      *)
(*   Spec           the service as a state machine (registry, timers,        *)
(*                  client messages, ticks);                                 *)
(*   SpecRegistry   Spec with patches that name identity fields;             *)
(*   SpecShutdown   Spec with cleanup();                                     *)
(*   SpecHub        subscribers connecting, closing and receiving;           *)
(*   SpecMessages   the hub receiving messages it cannot handle;             *)
(*   SpecQuality    generateSensorReading applied to bounded inputs;         *)
(*   SpecThreshold  checkAlertThresholds applied to bounded inputs;          *)
(*   SpecCluster    calculateClusterRisk applied to bounded clusters;        *)
(*   SpecKMeans     analyzeLocationClusters on batches of points;            *)
(*   SpecProximity  analyzeProximityRisks on catalogs of zones;              *)
(*   SpecEvacuation getEvacuationAnalysis on catalogs of routes.             *)
(*****************************************************************************)
EXTENDS Integers, Sequences, FiniteSets, TLC

VARIABLES
    isInitialized,      \* IoTService.isInitialized
    sensorConfigs,      \* IoTService.sensorConfigs: key -> SensorConfig
    streamingIntervals, \* IoTService.streamingIntervals: key -> timer handle
    timers,             \* the runtime's interval timers, indexed by handle
    fired,              \* handle whose callback ran in the last step (0: none)
    envelope,           \* what the last step broadcast (NoEnvelope: nothing)
    lastMsg,            \* type and sensorId of the message the last step handled
    deactivated,        \* devices a reconfiguration took from ticking to inactive
    msgCount,           \* number of client messages handled so far
    running,            \* the server process is alive
    alertThresholds,    \* IoTService.alertThresholds
    connectedClients,   \* IoTService.connectedClients
    readyState,         \* socket -> WebSocket.readyState
    inbox,              \* socket -> the messages send() has put on its channel
    published,          \* number of envelopes broadcast so far
    connectedAt,        \* socket -> value of published at its 'connection' event
    closedAt,           \* socket -> value of published when it left OPEN
    clock,              \* Date.now(), in hours since initialize
    cleaned,            \* cleanup() has been called
    qIn, qOut,          \* input / result of generateSensorReading (SpecQuality)
    tIn, tOut,          \* input / result of checkAlertThresholds (SpecThreshold)
    cIn, cOut           \* input / result of a GeoAnalyticsService function

\* the subscriber side of the service
hubVars == <<connectedClients, readyState, inbox, published, connectedAt,
             closedAt, clock>>

vars == <<isInitialized, sensorConfigs, streamingIntervals, timers, fired,
          envelope, lastMsg, deactivated, msgCount, running, alertThresholds,
          hubVars, cleaned, qIn, qOut, tIn, tOut, cIn, cOut>>

\* the variables of the pure-function specifications
pureVars == <<qIn, qOut, tIn, tOut, cIn, cOut>>

-----------------------------------------------------------------------------
(* Bounds *)

\* client messages handled in one behaviour
MaxMessages == 2

-----------------------------------------------------------------------------
(* Time.  Dates are counted in hours, timer delays in milliseconds. *)

\* 24 * 60 * 60 * 1000 ms, in the model's date unit (one hour)
DAY == 24

\* a value that is a Date
DateOf(t) == [isDate |-> TRUE, time |-> t]

\* a JSON value standing where a Date is expected (JSON.parse yields no Date)
JsonDate == [isDate |-> FALSE, time |-> 0]

-----------------------------------------------------------------------------
(* Device registry *)

NoHandle == 0
NoEnvelope == [kind |-> "none"]
NoMsg == [type |-> "none", sensorId |-> ""]

\* the function with the empty domain: an empty Map, an empty patch
Empty == [x \in {} |-> 0]

\* initializeSensorConfigs: the default sensors, Date.now() = 0
defaultSensors ==
    << [id |-> "wave_001", type |-> "wave", location |-> "New York Harbor Alpha",
        updateInterval |-> 30, isActive |-> TRUE,
        lastMaintenance |-> DateOf(0 - 7 * DAY)],
       [id |-> "tide_001", type |-> "tide", location |-> "Central Park Reservoir Beta",
        updateInterval |-> 60, isActive |-> FALSE,
        lastMaintenance |-> DateOf(0 - 14 * DAY)],
       [id |-> "weather_001", type |-> "weather", location |-> "Gamma Weather Station",
        updateInterval |-> 15, isActive |-> TRUE,
        lastMaintenance |-> DateOf(0 - 3 * DAY)],
       [id |-> "seismic_001", type |-> "seismic", location |-> "Seismic Monitor Delta",
        updateInterval |-> 5, isActive |-> TRUE,
        lastMaintenance |-> DateOf(0 - 1 * DAY)],
       [id |-> "water_001", type |-> "water_quality", location |-> "Water Quality Epsilon",
        updateInterval |-> 300, isActive |-> TRUE,
        lastMaintenance |-> DateOf(0 - 5 * DAY)] >>

DefaultIds == {defaultSensors[i].id : i \in 1..Len(defaultSensors)}

\* ids a client message may name: the registered ones and one that is not
UnknownId == "ghost_404"
MessageIds == DefaultIds \cup {UnknownId}

initializeSensorConfigs ==
    [k \in DefaultIds |->
        CHOOSE c \in {defaultSensors[i] : i \in 1..Len(defaultSensors)} : c.id = k]

\* { ...existing, ...newConfig }
Spread(existing, newConfig) ==
    [f \in (DOMAIN existing) \cup (DOMAIN newConfig) |->
        IF f \in DOMAIN newConfig THEN newConfig[f] ELSE existing[f]]

\* Map.set(key, value)
MapSet(map, key, value) ==
    [k \in (DOMAIN map) \cup {key} |-> IF k = key THEN value ELSE map[k]]

-----------------------------------------------------------------------------
(* Timers *)

\* setInterval's delay: a delay below 1 ms (or above 2^31 - 1) is run as 1 ms
TIMEOUT_MAX == 2147483647
TimerDelay(ms) == IF ms >= 1 /\ ms <= TIMEOUT_MAX THEN ms ELSE 1

\* setInterval(() => { generateSensorReading(config); ... }, seconds * 1000):
\* the new timer's record.  config is the object the callback closes over;
\* aliased tells whether that object is the one the registry holds.
NewTimer(sensorId, config, seconds, aliased) ==
    [sensorId |-> sensorId, delay |-> TimerDelay(seconds * 1000),
     config |-> config, aliased |-> aliased, live |-> TRUE]

\* clearInterval that stops every timer of the table
ClearInterval_All(ts, handle) ==
    [h \in DOMAIN ts |-> [ts[h] EXCEPT !.live = FALSE]]

\* clearInterval(handle)
ClearInterval(ts, handle) ==
    [h \in DOMAIN ts |-> IF h = handle THEN [ts[h] EXCEPT !.live = FALSE] ELSE ts[h]]

LiveTimers(id) == {h \in DOMAIN timers : timers[h].live /\ timers[h].sensorId = id}

-----------------------------------------------------------------------------
(* Reading synthesizer *)

\* what Math.random() contributes to one reading: whether the seismic 5%
\* branch is taken, and the value (in tenths) of the type's monitored field
\* in the normal and in the strong case
Draw(spike, normal, strong) == [spike |-> spike, normal |-> normal, strong |-> strong]

\* a field value of a reading: a number (in tenths) or something else
Num(v) == [isNumber |-> TRUE, v |-> v]
NotNum == [isNumber |-> FALSE, v |-> 0]

\* the data of a reading, by device type: the monitored field, in tenths
SensorData(type, rnd) ==
    CASE type = "wave"          -> [height |-> Num(rnd.normal)]
      [] type = "tide"          -> [level |-> Num(rnd.normal)]
      [] type = "weather"       -> [windSpeed |-> Num(rnd.normal)]
      [] type = "seismic"       ->
            [magnitude |-> Num(IF rnd.spike THEN rnd.strong ELSE rnd.normal)]
      [] type = "water_quality" -> [ph |-> Num(rnd.normal)]
      [] type = "marine_life"   -> [fishCount |-> Num(rnd.normal)]
      [] OTHER                  -> Empty

\* the grade the switch leaves in `quality` before the degradation step
SwitchQuality(type, rnd) ==
    IF type = "seismic" /\ rnd.spike THEN "excellent" ELSE "good"

\* daysSinceMaintenance > n, with elapsed = Date.now() - lastMaintenance.getTime()
DaysExceed(elapsed, n) == elapsed > n * DAY

\* the degradation step with >= in place of >
DegradedQuality_Inclusive(before, elapsed) ==
    IF elapsed >= 30 * DAY THEN "poor"
    ELSE IF elapsed >= 14 * DAY THEN "fair"
    ELSE IF elapsed >= 7 * DAY THEN "good"
    ELSE "excellent"

\* lines 273-278: the degradation step assigns `quality` in every branch
DegradedQuality(before, elapsed) ==
    IF DaysExceed(elapsed, 30) THEN "poor"
    ELSE IF DaysExceed(elapsed, 14) THEN "fair"
    ELSE IF DaysExceed(elapsed, 7) THEN "good"
    ELSE "excellent"

\* config.lastMaintenance.getTime() throws unless lastMaintenance is a Date
Throws(config) == ~config.lastMaintenance.isDate

\* generateSensorReading(config) at Date.now() = now with the draws rnd
generateSensorReading(config, now, rnd) ==
    [sensorId  |-> config.id,
     timestamp |-> now,
     data      |-> SensorData(config.type, rnd),
     quality   |-> DegradedQuality(SwitchQuality(config.type, rnd),
                                   now - config.lastMaintenance.time)]

-----------------------------------------------------------------------------
(* Threshold engine.  Bounds and values are in tenths. *)

\* setupAlertThresholds: the static rule table
setupAlertThresholds ==
    << [sensorType |-> "wave", parameter |-> "height", maxValue |-> 40,
        condition |-> "above", severity |-> "high"],
       [sensorType |-> "wave", parameter |-> "height", maxValue |-> 60,
        condition |-> "above", severity |-> "critical"],
       [sensorType |-> "tide", parameter |-> "level", minValue |-> 0 - 30,
        maxValue |-> 30, condition |-> "outside", severity |-> "medium"],
       [sensorType |-> "weather", parameter |-> "windSpeed", maxValue |-> 250,
        condition |-> "above", severity |-> "medium"],
       [sensorType |-> "weather", parameter |-> "windSpeed", maxValue |-> 400,
        condition |-> "above", severity |-> "high"],
       [sensorType |-> "seismic", parameter |-> "magnitude", maxValue |-> 30,
        condition |-> "above", severity |-> "medium"],
       [sensorType |-> "water_quality", parameter |-> "ph", minValue |-> 65,
        maxValue |-> 85, condition |-> "outside", severity |-> "medium"] >>

\* JavaScript truthiness of an optional numeric property: present and not 0
Truthy(obj, prop) == prop \in DOMAIN obj /\ obj[prop] # 0

\* the switch on threshold.condition: is the rule triggered by value
Triggered(threshold, value) ==
    CASE threshold.condition = "above" ->
            Truthy(threshold, "maxValue") /\ value > threshold.maxValue
      [] threshold.condition = "below" ->
            Truthy(threshold, "minValue") /\ value < threshold.minValue
      [] threshold.condition = "outside" ->
            /\ Truthy(threshold, "minValue")
            /\ Truthy(threshold, "maxValue")
            /\ (value < threshold.minValue \/ value > threshold.maxValue)
      [] OTHER -> FALSE

\* the alert pushed for a triggered rule; rule is the rule's place in the
\* table (the identity of the object `threshold` refers to)
Alert(rules, i, value) ==
    [parameter |-> rules[i].parameter, value |-> value,
     threshold |-> rules[i], rule |-> i,
     message |-> <<rules[i].parameter, value, rules[i].condition>>]

\* the forEach leaving at the first triggered rule
RECURSIVE EvaluateRules_FirstOnly(_, _, _, _)
EvaluateRules_FirstOnly(rules, type, data, n) ==
    IF n = 0 THEN <<>>
    ELSE LET before == EvaluateRules_FirstOnly(rules, type, data, n - 1)
             th     == rules[n]
         IN  IF before # <<>> THEN before
             ELSE IF th.sensorType # type THEN before
             ELSE IF th.parameter \notin DOMAIN data THEN before
             ELSE IF ~data[th.parameter].isNumber THEN before
             ELSE IF Triggered(th, data[th.parameter].v)
                  THEN Append(before, Alert(rules, n, data[th.parameter].v))
             ELSE before

\* the forEach failing at a rule whose field the reading lacks: the alerts
\* collected so far are lost
RECURSIVE EvaluateRules_AbortOnAbsent(_, _, _, _)
EvaluateRules_AbortOnAbsent(rules, type, data, n) ==
    IF n = 0 THEN <<>>
    ELSE LET before == EvaluateRules_AbortOnAbsent(rules, type, data, n - 1)
             th     == rules[n]
         IN  IF th.sensorType # type THEN before
             ELSE IF th.parameter \notin DOMAIN data THEN <<>>
             ELSE IF ~data[th.parameter].isNumber THEN <<>>
             ELSE IF Triggered(th, data[th.parameter].v)
                  THEN Append(before, Alert(rules, n, data[th.parameter].v))
             ELSE before

\* the filter(...).forEach(...) of checkAlertThresholds over rules 1..n
RECURSIVE EvaluateRules(_, _, _, _)
EvaluateRules(rules, type, data, n) ==
    IF n = 0 THEN <<>>
    ELSE LET before == EvaluateRules(rules, type, data, n - 1)
             th     == rules[n]
         IN  IF th.sensorType # type THEN before
             ELSE IF th.parameter \notin DOMAIN data THEN before
             ELSE IF ~data[th.parameter].isNumber THEN before
             ELSE IF Triggered(th, data[th.parameter].v)
                  THEN Append(before, Alert(rules, n, data[th.parameter].v))
             ELSE before

\* checkAlertThresholds(reading) on the registry configs and the table rules
checkAlertThresholds(configs, rules, reading) ==
    IF reading.sensorId \notin DOMAIN configs THEN <<>>
    ELSE EvaluateRules(rules, configs[reading.sensorId].type, reading.data, Len(rules))

-----------------------------------------------------------------------------
(* The service *)

\* updateSensorConfig, the body of `if (existing)`
ApplySensorConfig(sensorId, existing, newConfig) ==
         LET \* the registry gets a new object: no timer closes over it
             stale == [h \in DOMAIN timers |->
                          IF timers[h].sensorId = sensorId
                          THEN [timers[h] EXCEPT !.aliased = FALSE] ELSE timers[h]]
             restart == Truthy(newConfig, "updateInterval")
             oldInterval == IF sensorId \in DOMAIN streamingIntervals
                            THEN streamingIntervals[sensorId] ELSE NoHandle
             cleared == IF restart /\ oldInterval # NoHandle
                        THEN ClearInterval(stale, oldInterval) ELSE stale
         IN  /\ sensorConfigs' = MapSet(sensorConfigs, sensorId, Spread(existing, newConfig))
             /\ IF restart /\ existing.isActive
                THEN /\ timers' = Append(cleared,
                                    NewTimer(sensorId, existing, newConfig.updateInterval, FALSE))
                     /\ streamingIntervals' =
                            MapSet(streamingIntervals, sensorId, Len(cleared) + 1)
                ELSE /\ timers' = cleared
                     /\ UNCHANGED streamingIntervals

\* updateSensorConfig without the `if (existing)` guard: an unknown id is
\* given a configuration
updateSensorConfig_Upsert(sensorId, newConfig) ==
    ApplySensorConfig(sensorId,
        IF sensorId \in DOMAIN sensorConfigs THEN sensorConfigs[sensorId]
        ELSE [defaultSensors[1] EXCEPT !.id = sensorId],
        newConfig)

\* updateSensorConfig(sensorId, newConfig)
updateSensorConfig(sensorId, newConfig) ==
    IF sensorId \in DOMAIN sensorConfigs
    THEN ApplySensorConfig(sensorId, sensorConfigs[sensorId], newConfig)
    ELSE UNCHANGED <<sensorConfigs, streamingIntervals, timers>>

\* updateMaintenanceRecord(sensorId, maintenanceDate): the stored object is
\* mutated in place, so a callback closing over it sees the new date
updateMaintenanceRecord(sensorId, maintenanceDate) ==
    IF sensorId \in DOMAIN sensorConfigs
    THEN /\ sensorConfigs' = [sensorConfigs EXCEPT
                                 ![sensorId].lastMaintenance = maintenanceDate]
         /\ timers' = [h \in DOMAIN timers |->
                          IF timers[h].sensorId = sensorId /\ timers[h].aliased
                          THEN [timers[h] EXCEPT !.config.lastMaintenance = maintenanceDate]
                          ELSE timers[h]]
         /\ UNCHANGED streamingIntervals
    ELSE UNCHANGED <<sensorConfigs, streamingIntervals, timers>>

\* processSensorReading(reading): the envelope handed to broadcastToClients
processSensorReading(reading) ==
    [kind |-> "sensor_reading", sensorId |-> reading.sensorId,
     timestamp |-> reading.timestamp, quality |-> reading.quality, data |-> reading.data,
     alerts |-> checkAlertThresholds(sensorConfigs, alertThresholds, reading)]

\* what the pure-function specifications hold before the function is applied
NoReading == [sensorId |-> "", timestamp |-> 0, data |-> Empty, quality |-> "none"]
NoInput == [kind |-> "none"]
Pending == [done |-> FALSE, alerts |-> <<>>]

\* the sockets that may connect to /ws/sensors
Sockets == {"ws1", "ws2"}

\* no socket has connected and nothing has been broadcast
NoSubscribers ==
    /\ connectedClients = {}
    /\ readyState = [c \in Sockets |-> "CONNECTING"]
    /\ inbox = [c \in Sockets |-> <<>>]
    /\ published = 0
    /\ connectedAt = [c \in Sockets |-> 0]
    /\ closedAt = [c \in Sockets |-> 0]
    /\ clock = 1

\* no cluster has been handed to calculateClusterRisk
NoCluster == cIn = NoInput /\ cOut = "none"

\* the patches a sensor_config_update may carry
PatchIntervals == {10, 0, 0 - 5}
ActivePatches == {Empty} \cup {[isActive |-> b] : b \in BOOLEAN}
IntervalPatches == {Empty} \cup {[updateInterval |-> n] : n \in PatchIntervals}
Patches == {Spread(a, i) : a \in ActivePatches, i \in IntervalPatches}

\* Date.now() at a tick, in hours since initialize
TickTimes == {0}

\* the draws of a tick
TickDraws == {Draw(TRUE, 45, 31)}

\* the object after construction
Init ==
    /\ isInitialized = FALSE
    /\ sensorConfigs = Empty
    /\ streamingIntervals = Empty
    /\ timers = <<>>
    /\ fired = NoHandle
    /\ envelope = NoEnvelope
    /\ lastMsg = NoMsg
    /\ deactivated = {}
    /\ msgCount = 0
    /\ running = TRUE
    /\ alertThresholds = <<>>
    /\ NoSubscribers
    /\ cleaned = FALSE
    /\ qIn = NoInput /\ qOut = NoReading
    /\ tIn = NoInput /\ tOut = Pending
    /\ NoCluster

\* startSensorDataStreams: one timer per active config, in insertion order
RECURSIVE StartStreams(_, _, _)
StartStreams(n, ts, handles) ==
    IF n > Len(defaultSensors) THEN <<ts, handles>>
    ELSE LET config == defaultSensors[n]
         IN  IF config.isActive
             THEN StartStreams(n + 1,
                     Append(ts, NewTimer(config.id, config, config.updateInterval, TRUE)),
                     MapSet(handles, config.id, Len(ts) + 1))
             ELSE StartStreams(n + 1, ts, handles)

startSensorDataStreams == StartStreams(1, <<>>, Empty)

\* initialize(server)
Initialize ==
    /\ running
    /\ IF isInitialized
       THEN UNCHANGED <<isInitialized, sensorConfigs, alertThresholds, timers,
                        streamingIntervals>>
       ELSE /\ sensorConfigs' = initializeSensorConfigs
            /\ alertThresholds' = setupAlertThresholds
            /\ timers' = startSensorDataStreams[1]
            /\ streamingIntervals' = startSensorDataStreams[2]
            /\ isInitialized' = TRUE
    /\ fired' = NoHandle
    /\ envelope' = NoEnvelope
    /\ lastMsg' = NoMsg
    /\ UNCHANGED <<deactivated, msgCount, running, pureVars>>

\* a client message arrives: the 'message' handler up to the dispatch
Receives(type, sensorId) ==
    /\ running
    /\ isInitialized
    /\ msgCount < MaxMessages
    /\ msgCount' = msgCount + 1
    /\ fired' = NoHandle
    /\ lastMsg' = [type |-> type, sensorId |-> sensorId]
    /\ UNCHANGED <<isInitialized, running, alertThresholds, pureVars>>

\* the record of the reconfigurations that took a ticking device to inactive
\* and have not been followed by one that stores it active again
Deactivated(sensorId) ==
    IF sensorId \notin DOMAIN sensorConfigs THEN deactivated
    ELSE IF sensorConfigs'[sensorId].isActive THEN deactivated \ {sensorId}
    ELSE IF sensorConfigs[sensorId].isActive /\ LiveTimers(sensorId) # {}
         THEN deactivated \cup {sensorId}
    ELSE deactivated

\* handleSensorMessage, case 'sensor_config_update'
SensorConfigUpdate(sensorId, config) ==
    /\ Receives("sensor_config_update", sensorId)
    /\ updateSensorConfig(sensorId, config)
    /\ deactivated' = Deactivated(sensorId)
    /\ envelope' = NoEnvelope

\* handleSensorMessage, case 'maintenance_update'
MaintenanceUpdate(sensorId, date) ==
    /\ Receives("maintenance_update", sensorId)
    /\ updateMaintenanceRecord(sensorId, date)
    /\ envelope' = NoEnvelope
    /\ UNCHANGED deactivated

\* handleSensorMessage, case 'manual_reading'
ManualReading(reading) ==
    /\ Receives("manual_reading", reading.sensorId)
    /\ envelope' = processSensorReading(reading)
    /\ UNCHANGED <<sensorConfigs, streamingIntervals, timers, deactivated>>

\* the readings a manual_reading message may carry
ManualReadings ==
    {[sensorId |-> id, timestamp |-> 0, data |-> Empty, quality |-> "good"] :
        id \in MessageIds}

\* the callback of timer h runs at time now: generateSensorReading,
\* processSensorReading
TickAt(h, now) ==
    /\ running
    /\ h \in DOMAIN timers
    /\ timers[h].live
    /\ fired' = h
    /\ lastMsg' = NoMsg
    /\ IF Throws(timers[h].config)
       THEN \* the exception leaves the callback: the process ends
            /\ envelope' = NoEnvelope
            /\ running' = FALSE
       ELSE /\ \E rnd \in TickDraws :
                  envelope' = processSensorReading(
                                  generateSensorReading(timers[h].config, now, rnd))
            /\ UNCHANGED running
    /\ UNCHANGED <<isInitialized, sensorConfigs, streamingIntervals, timers,
                   deactivated, msgCount, alertThresholds, pureVars>>

\* the callback of timer h runs
Tick(h) == \E now \in TickTimes : TickAt(h, now)

\* the step is none of the subscribers' and not cleanup()
ServiceOnly == UNCHANGED <<hubVars, cleaned>>

\* the service and its timers; who is connected is left out
Next ==
    \/ Initialize /\ ServiceOnly
    \/ \E id \in MessageIds, p \in Patches :
            SensorConfigUpdate(id, p) /\ ServiceOnly
    \/ \E id \in MessageIds : MaintenanceUpdate(id, JsonDate) /\ ServiceOnly
    \/ \E r \in ManualReadings : ManualReading(r) /\ ServiceOnly
    \/ \E h \in DOMAIN timers : Tick(h) /\ ServiceOnly

Spec == Init /\ [][Next]_vars

-----------------------------------------------------------------------------
(* SpecRegistry: the service with sensor_config_update messages whose patch
   names the fields that identify a device.  message.config is whatever the
   client sent. *)

\* patches that name the id or the type of the device
IdentityPatches ==
    {[id |-> UnknownId], [id |-> "tide_001"], [type |-> "tide"]}

NextRegistry ==
    \/ Next
    \/ \E id \in MessageIds, p \in IdentityPatches :
            SensorConfigUpdate(id, p) /\ ServiceOnly

SpecRegistry == Init /\ [][NextRegistry]_vars

-----------------------------------------------------------------------------
(* SpecShutdown: the service with cleanup().  wss.close() stops the server
   from accepting sockets; the sockets already connected stay connected and
   their messages are still handled. *)

\* streamingIntervals.forEach(interval => clearInterval(interval))
RECURSIVE ClearAll(_, _)
ClearAll(ts, handles) ==
    IF handles = {} THEN ts
    ELSE LET h == CHOOSE x \in handles : TRUE
         IN  ClearAll(ClearInterval(ts, h), handles \ {h})

\* cleanup(), called once on a service that has been initialized
Cleanup ==
    /\ running
    /\ isInitialized
    /\ ~cleaned
    /\ timers' = ClearAll(timers, {streamingIntervals[id] : id \in DOMAIN streamingIntervals})
    /\ streamingIntervals' = Empty
    /\ cleaned' = TRUE
    /\ fired' = NoHandle
    /\ envelope' = NoEnvelope
    /\ lastMsg' = NoMsg
    /\ UNCHANGED <<isInitialized, sensorConfigs, deactivated, msgCount, running,
                   alertThresholds, hubVars, pureVars>>

NextShutdown ==
    \/ Next
    \/ Cleanup

SpecShutdown == Init /\ [][NextShutdown]_vars

-----------------------------------------------------------------------------
(* SpecHub: sockets connect and close while envelopes are broadcast.  The
   callbacks of the event loop run one at a time, so a broadcast, a
   'connection' event and a 'close' event are each one step. *)

\* the clock readings at which a timer may fire
MaxClock == 2

\* what send() puts on a socket's channel for the envelope numbered seq
Message(seq, env) ==
    [seq |-> seq, sensorId |-> env.sensorId, timestamp |-> env.timestamp]

\* a forEach that a socket which is not open brings to an end for all
broadcastToClients_Abort(message) ==
    [c \in Sockets |->
        IF \A d \in connectedClients : readyState[d] = "OPEN"
        THEN IF c \in connectedClients THEN Append(inbox[c], message) ELSE inbox[c]
        ELSE inbox[c]]

\* a forEach that sends whatever the socket's readyState
broadcastToClients_All(message) ==
    [c \in Sockets |->
        IF c \in connectedClients THEN Append(inbox[c], message) ELSE inbox[c]]

\* broadcastToClients(data): send to every client whose readyState is OPEN
broadcastToClients(message) ==
    [c \in Sockets |->
        IF c \in connectedClients /\ readyState[c] = "OPEN"
        THEN Append(inbox[c], message)
        ELSE inbox[c]]

\* the broadcast at the end of processSensorReading, if the step reached it
Publish ==
    IF envelope'.kind = "sensor_reading"
    THEN /\ published' = published + 1
         /\ inbox' = broadcastToClients(Message(published + 1, envelope'))
    ELSE UNCHANGED <<published, inbox>>

\* a step of a socket, not of the service
SocketOnly ==
    /\ fired' = NoHandle
    /\ envelope' = NoEnvelope
    /\ lastMsg' = NoMsg
    /\ UNCHANGED <<isInitialized, sensorConfigs, streamingIntervals, timers,
                   deactivated, msgCount, running, alertThresholds, inbox,
                   published, clock, cleaned, pureVars>>

\* wss.on('connection'): the socket joins connectedClients
OnConnection(c) ==
    /\ running
    /\ isInitialized
    /\ readyState[c] = "CONNECTING"
    /\ readyState' = [readyState EXCEPT ![c] = "OPEN"]
    /\ connectedClients' = connectedClients \cup {c}
    /\ connectedAt' = [connectedAt EXCEPT ![c] = published]
    /\ UNCHANGED closedAt
    /\ SocketOnly

\* a close frame is sent or received: the socket is CLOSING and its 'close'
\* event has not been emitted yet
BeginClose(c) ==
    /\ running
    /\ readyState[c] = "OPEN"
    /\ readyState' = [readyState EXCEPT ![c] = "CLOSING"]
    /\ closedAt' = [closedAt EXCEPT ![c] = published]
    /\ UNCHANGED <<connectedClients, connectedAt>>
    /\ SocketOnly

\* ws.on('close'): the socket is CLOSED and leaves connectedClients
OnClose(c) ==
    /\ running
    /\ readyState[c] \in {"OPEN", "CLOSING"}
    /\ readyState' = [readyState EXCEPT ![c] = "CLOSED"]
    /\ connectedClients' = connectedClients \ {c}
    /\ closedAt' = IF readyState[c] = "OPEN"
                   THEN [closedAt EXCEPT ![c] = published]
                   ELSE closedAt
    /\ UNCHANGED connectedAt
    /\ SocketOnly

\* a timer fires; the clock has moved on since the tick before
HubTick(h) ==
    /\ clock <= MaxClock
    /\ TickAt(h, clock)
    /\ clock' = clock + 1
    /\ Publish
    /\ UNCHANGED <<connectedClients, readyState, connectedAt, closedAt, cleaned>>

\* a connected socket sends a manual_reading message
HubManualReading(r) ==
    /\ \E c \in connectedClients : readyState[c] = "OPEN"
    /\ ManualReading(r)
    /\ Publish
    /\ UNCHANGED <<connectedClients, readyState, connectedAt, closedAt, clock,
                   cleaned>>

\* the timers whose ticks the hub is observed under, and the manual
\* readings sent to it: two devices' timers, a reading naming the first
HubTimers == {h \in DOMAIN timers : timers[h].sensorId \in {"wave_001", "weather_001"}}
HubReadings == {r \in ManualReadings : r.sensorId = "wave_001"}

\* the service after initialize(server), no socket connected yet
InitHub ==
    /\ isInitialized = TRUE
    /\ sensorConfigs = initializeSensorConfigs
    /\ streamingIntervals = startSensorDataStreams[2]
    /\ timers = startSensorDataStreams[1]
    /\ fired = NoHandle
    /\ envelope = NoEnvelope
    /\ lastMsg = NoMsg
    /\ deactivated = {}
    /\ msgCount = 0
    /\ running = TRUE
    /\ alertThresholds = setupAlertThresholds
    /\ NoSubscribers
    /\ cleaned = FALSE
    /\ qIn = NoInput /\ qOut = NoReading
    /\ tIn = NoInput /\ tOut = Pending
    /\ NoCluster

NextHub ==
    \/ \E c \in Sockets : OnConnection(c)
    \/ \E c \in Sockets : BeginClose(c)
    \/ \E c \in Sockets : OnClose(c)
    \/ \E h \in HubTimers : HubTick(h)
    \/ \E r \in HubReadings : HubManualReading(r)

SpecHub == InitHub /\ [][NextHub]_vars

-----------------------------------------------------------------------------
(* SpecMessages: the hub with client messages that are not well formed *)

\* what a socket may send besides the well-formed messages: text that is
\* not JSON, a type the switch has no case for, a manual_reading without
\* reading, a sensor_config_update without config
MalformedKinds == {"invalid_json", "unknown_type", "reading_missing", "config_missing"}

\* JSON.parse or the handler throws on the message
Thrown(kind, sensorId) ==
    CASE kind = "invalid_json"    -> TRUE
      [] kind = "unknown_type"    -> FALSE
      [] kind = "reading_missing" -> TRUE
      [] kind = "config_missing"  -> sensorId \in DOMAIN sensorConfigs

\* a 'message' handler without the try / catch
HandlerSurvives_NoCatch(thrown) == ~thrown

\* the try / catch of the 'message' handler: what JSON.parse or the handler
\* throws is logged and the process lives on
HandlerSurvives(thrown) == TRUE

\* ws.on('message') for a message that is not well formed.  Only the
\* sensor_config_update of a registered device gets as far as a write: it
\* stores the copy { ...existing, ...undefined } before newConfig.updateInterval
\* throws, so the timers of the device no longer share the stored object.
Malformed(kind, sensorId) ==
    /\ running
    /\ isInitialized
    /\ msgCount < MaxMessages
    /\ \E c \in connectedClients : readyState[c] = "OPEN"
    /\ msgCount' = msgCount + 1
    /\ fired' = NoHandle
    /\ lastMsg' = [type |-> kind, sensorId |-> sensorId]
    /\ envelope' = NoEnvelope
    /\ running' = HandlerSurvives(Thrown(kind, sensorId))
    /\ IF kind = "config_missing" /\ sensorId \in DOMAIN sensorConfigs
       THEN /\ sensorConfigs' = MapSet(sensorConfigs, sensorId,
                                       Spread(sensorConfigs[sensorId], Empty))
            /\ timers' = [h \in DOMAIN timers |->
                             IF timers[h].sensorId = sensorId
                             THEN [timers[h] EXCEPT !.aliased = FALSE]
                             ELSE timers[h]]
       ELSE UNCHANGED <<sensorConfigs, timers>>
    /\ UNCHANGED <<isInitialized, streamingIntervals, deactivated,
                   alertThresholds, hubVars, cleaned, pureVars>>

\* the malformed messages sent: the device named matters to the
\* sensor_config_update only
MalformedMessages ==
    {<<kind, "">> : kind \in MalformedKinds \ {"config_missing"}}
        \cup {<<"config_missing", id>> : id \in {"wave_001", UnknownId}}

NextMessages ==
    \/ \E c \in Sockets : OnConnection(c)
    \/ \E c \in Sockets : BeginClose(c)
    \/ \E c \in Sockets : OnClose(c)
    \/ \E h \in HubTimers : HubTick(h)
    \/ \E m \in MalformedMessages : Malformed(m[1], m[2])

SpecMessages == InitHub /\ [][NextMessages]_vars

-----------------------------------------------------------------------------
(* SpecQuality: generateSensorReading on bounded inputs *)

SensorTypes == {"wave", "tide", "weather", "seismic", "water_quality", "marine_life"}

\* hours since the last maintenance: both sides of 7, 14 and 30 days
ElapsedHours ==
    {0 - DAY, 0, 2 * DAY, 7 * DAY, 7 * DAY + 1, 10 * DAY, 14 * DAY, 14 * DAY + 1,
     30 * DAY, 30 * DAY + 1, 40 * DAY}

QualityDraws == {Draw(s, 20, st) : s \in BOOLEAN, st \in {25, 44}}

QualityInputs ==
    {[kind |-> "generate",
      config |-> [id |-> "dev", type |-> t, location |-> "here", updateInterval |-> 5,
                  isActive |-> TRUE, lastMaintenance |-> DateOf(0 - e)],
      now |-> 0, rnd |-> r] :
        t \in SensorTypes, e \in ElapsedHours, r \in QualityDraws}

InitQuality ==
    /\ isInitialized = FALSE
    /\ sensorConfigs = Empty
    /\ streamingIntervals = Empty
    /\ timers = <<>>
    /\ fired = NoHandle
    /\ envelope = NoEnvelope
    /\ lastMsg = NoMsg
    /\ deactivated = {}
    /\ msgCount = 0
    /\ running = TRUE
    /\ alertThresholds = <<>>
    /\ NoSubscribers
    /\ cleaned = FALSE
    /\ qIn \in QualityInputs /\ qOut = NoReading
    /\ tIn = NoInput /\ tOut = Pending
    /\ NoCluster

Synthesize ==
    /\ qIn.kind = "generate"
    /\ qOut = NoReading
    /\ qOut' = generateSensorReading(qIn.config, qIn.now, qIn.rnd)
    /\ UNCHANGED <<isInitialized, sensorConfigs, streamingIntervals, timers, fired,
                   envelope, lastMsg, deactivated, msgCount, running,
                   alertThresholds, hubVars, cleaned, qIn, tIn, tOut, cIn, cOut>>

NextQuality == Synthesize

SpecQuality == InitQuality /\ [][NextQuality]_vars

\* the reading in qOut came out of the seismic 5% branch
FromSpike == qOut # NoReading /\ qIn.config.type = "seismic" /\ qIn.rnd.spike

\* days since maintenance of the reading in qOut, as hours
Elapsed == qIn.now - qIn.config.lastMaintenance.time

-----------------------------------------------------------------------------
(* SpecThreshold: checkAlertThresholds on bounded inputs *)

\* the bounds a rule may carry and the values a field may hold, in tenths
RuleBounds == {0 - 30, 0, 40, 60}
FieldValues == {0 - 50, 0 - 30, 0 - 1, 0, 1, 39, 40, 45, 61}

\* a rule's optional bound: absent, or one of the bounds
OptionalBound(prop) == {Empty} \cup {[p \in {prop} |-> b] : b \in RuleBounds}

\* the rules of the bounded tables: wave or tide, on height or level
BoundedRules ==
    {Spread(Spread([sensorType |-> t, parameter |-> f, condition |-> c,
                    severity |-> "high"], lo), hi) :
        t \in {"wave", "tide"}, f \in {"height", "level"},
        c \in {"above", "below", "outside", "between"},
        lo \in OptionalBound("minValue"), hi \in OptionalBound("maxValue")}

\* two 'above' rules on the wave height, of different severities
RulePairs ==
    {<< [sensorType |-> "wave", parameter |-> "height", maxValue |-> a,
         condition |-> "above", severity |-> "high"],
        [sensorType |-> "wave", parameter |-> "height", maxValue |-> b,
         condition |-> "above", severity |-> "critical"] >> :
        a \in RuleBounds, b \in RuleBounds}

\* two wave rules on different fields, one of which a wave reading lacks
MixedPairs ==
    {<< [sensorType |-> "wave", parameter |-> f, maxValue |-> 40,
         condition |-> "above", severity |-> "high"],
        [sensorType |-> "wave", parameter |-> g, maxValue |-> 40,
         condition |-> "above", severity |-> "medium"] >> :
        f \in {"height", "level"}, g \in {"height", "level"}}

\* the rule tables: the table of the code, one bounded rule, a pair
RuleTables ==
    {setupAlertThresholds} \cup {<<r>> : r \in BoundedRules} \cup RulePairs
        \cup MixedPairs

\* the data of the bounded readings: no field, or height or level holding a
\* number or something that is not a number
BoundedData ==
    {Empty}
    \cup {[height |-> x] : x \in {Num(v) : v \in FieldValues} \cup {NotNum}}
    \cup {[level |-> x] : x \in {Num(v) : v \in FieldValues} \cup {NotNum}}

ThresholdInputs ==
    {[kind |-> "check",
      reading |-> [sensorId |-> id, timestamp |-> 0, data |-> d, quality |-> "good"]] :
        id \in {"wave_001", "tide_001", UnknownId}, d \in BoundedData}

InitThreshold ==
    /\ isInitialized = TRUE
    /\ sensorConfigs = initializeSensorConfigs
    /\ streamingIntervals = startSensorDataStreams[2]
    /\ timers = startSensorDataStreams[1]
    /\ fired = NoHandle
    /\ envelope = NoEnvelope
    /\ lastMsg = NoMsg
    /\ deactivated = {}
    /\ msgCount = 0
    /\ running = TRUE
    /\ alertThresholds \in RuleTables
    /\ NoSubscribers
    /\ cleaned = FALSE
    /\ qIn = NoInput /\ qOut = NoReading
    /\ tIn \in ThresholdInputs /\ tOut = Pending
    /\ NoCluster

Evaluate ==
    /\ tIn.kind = "check"
    /\ ~tOut.done
    /\ tOut' = [done |-> TRUE,
                alerts |-> checkAlertThresholds(sensorConfigs, alertThresholds,
                                                tIn.reading)]
    /\ UNCHANGED <<isInitialized, sensorConfigs, streamingIntervals, timers, fired,
                   envelope, lastMsg, deactivated, msgCount, running,
                   alertThresholds, hubVars, cleaned, qIn, qOut, tIn, cIn, cOut>>

NextThreshold == Evaluate

SpecThreshold == InitThreshold /\ [][NextThreshold]_vars

\* the alerts in tOut that refer to rule i of the table
AlertsOf(i) == {j \in 1..Len(tOut.alerts) : tOut.alerts[j].rule = i}

\* rule i applies to the reading in tIn: the reading's device is registered
\* with the rule's device type and the rule's field holds a number
Applies(i) ==
    /\ tIn.reading.sensorId \in DOMAIN sensorConfigs
    /\ alertThresholds[i].sensorType = sensorConfigs[tIn.reading.sensorId].type
    /\ alertThresholds[i].parameter \in DOMAIN tIn.reading.data
    /\ tIn.reading.data[alertThresholds[i].parameter].isNumber

\* the number the reading holds in the field of rule i
FieldOf(i) == tIn.reading.data[alertThresholds[i].parameter].v

-----------------------------------------------------------------------------
(* SpecCluster: GeoAnalyticsService.calculateClusterRisk on bounded clusters.
   Radii are in hundredths of a kilometre; Math.PI is taken as 355/113 and the
   radii are chosen away from the two density limits. *)

\* the largest number of points in a cluster
MaxPoints == 10

PI_NUM == 355
PI_DEN == 113

\* cluster.points.length / (Math.PI * cluster.radius * cluster.radius) as a
\* fraction; a division by 0 gives Infinity (NaN for 0 / 0)
PointDensity(cluster) ==
    IF cluster.radius = 0
    THEN [finite |-> FALSE, num |-> cluster.count, den |-> 0]
    ELSE [finite |-> TRUE, num |-> cluster.count * PI_DEN * 10000,
          den |-> PI_NUM * cluster.radius * cluster.radius]

\* pointDensity > limit: Infinity exceeds every limit, NaN exceeds none
DensityExceeds(density, limit) ==
    IF density.finite THEN density.num > limit * density.den
    ELSE density.num > 0

\* calculateClusterRisk(cluster)
calculateClusterRisk(cluster) ==
    IF DensityExceeds(PointDensity(cluster), 10) THEN "high"
    ELSE IF DensityExceeds(PointDensity(cluster), 5) THEN "medium"
    ELSE "low"

\* the clusters performClustering returns have at least one point; one whose
\* points all lie on its centre, a single point above all, has radius 0
ClusterRadii == {0, 5, 10, 20, 30, 50, 100}
ClusterInputs ==
    {[kind |-> "cluster", cluster |-> [count |-> n, radius |-> r]] :
        n \in 1..MaxPoints, r \in ClusterRadii}

InitCluster ==
    /\ isInitialized = FALSE
    /\ sensorConfigs = Empty
    /\ streamingIntervals = Empty
    /\ timers = <<>>
    /\ fired = NoHandle
    /\ envelope = NoEnvelope
    /\ lastMsg = NoMsg
    /\ deactivated = {}
    /\ msgCount = 0
    /\ running = TRUE
    /\ alertThresholds = <<>>
    /\ NoSubscribers
    /\ cleaned = FALSE
    /\ qIn = NoInput /\ qOut = NoReading
    /\ tIn = NoInput /\ tOut = Pending
    /\ cIn \in ClusterInputs /\ cOut = "none"

\* analyzeLocationClusters: riskLevel: this.calculateClusterRisk(cluster)
AssessCluster ==
    /\ cIn.kind = "cluster"
    /\ cOut = "none"
    /\ cOut' = calculateClusterRisk(cIn.cluster)
    /\ UNCHANGED <<isInitialized, sensorConfigs, streamingIntervals, timers, fired,
                   envelope, lastMsg, deactivated, msgCount, running,
                   alertThresholds, hubVars, cleaned, qIn, qOut, tIn, tOut, cIn>>

NextCluster == AssessCluster

SpecCluster == InitCluster /\ [][NextCluster]_vars

-----------------------------------------------------------------------------
(* SpecKMeans: GeoAnalyticsService.performClustering on bounded batches.
   The points lie on one meridian, where calculateDistance is the earth's
   radius times the difference of the latitudes: a point is its latitude in
   whole units, a distance the difference in the same units, and a centre,
   the mean of latitudes, the fraction num / den. *)

\* the largest batch of locations
MaxBatch == 4

\* for (let iteration = 0; iteration < 10; iteration++)
Iterations == 10

Abs(x) == IF x < 0 THEN 0 - x ELSE x

\* calculateDistance(point, centre) as the fraction num / den
Distance(lat, center) ==
    [num |-> Abs(lat * center.den - center.num), den |-> center.den]

\* a < b for two distances
Nearer(a, b) == a.num * b.den < b.num * a.den

\* the initial clusters: centres on the points Math.random() picked
SeedClusters(points, seeds) ==
    [j \in 1..Len(seeds) |->
        [center |-> [num |-> points[seeds[j]], den |-> 1],
         points |-> <<>>, radius |-> [num |-> 0, den |-> 1]]]

\* the scan for the nearest cluster: clusters[0] to begin with, replaced
\* by a cluster that is strictly nearer
RECURSIVE NearestCluster(_, _, _, _)
NearestCluster(lat, clusters, j, best) ==
    IF j > Len(clusters) THEN best
    ELSE IF Nearer(Distance(lat, clusters[j].center),
                   Distance(lat, clusters[best].center))
         THEN NearestCluster(lat, clusters, j + 1, j)
         ELSE NearestCluster(lat, clusters, j + 1, best)

\* points.forEach(point => nearestCluster.points.push(point)) for the
\* points 1..n; a cluster's points are the indices of its points
RECURSIVE AssignPoints(_, _, _)
AssignPoints(points, clusters, n) ==
    IF n = 0 THEN [j \in 1..Len(clusters) |-> <<>>]
    ELSE LET before == AssignPoints(points, clusters, n - 1)
             j      == NearestCluster(points[n], clusters, 1, 1)
         IN  [before EXCEPT ![j] = Append(before[j], n)]

RECURSIVE SumLats(_, _, _)
SumLats(points, members, n) ==
    IF n = 0 THEN 0 ELSE points[members[n]] + SumLats(points, members, n - 1)

\* Math.max(...) of the distances of the members to the centre
RECURSIVE MaxDistance(_, _, _, _)
MaxDistance(points, members, center, n) ==
    IF n = 0 THEN [num |-> 0, den |-> 1]
    ELSE LET rest == MaxDistance(points, members, center, n - 1)
             d    == Distance(points[members[n]], center)
         IN  IF Nearer(rest, d) THEN d ELSE rest

\* one iteration: clear, assign, update the centre and the radius of the
\* clusters that have points
Iteration(points, clusters) ==
    LET assigned == AssignPoints(points, clusters, Len(points))
    IN  [j \in 1..Len(clusters) |->
            IF assigned[j] = <<>>
            THEN [clusters[j] EXCEPT !.points = <<>>]
            ELSE LET center == [num |-> SumLats(points, assigned[j], Len(assigned[j])),
                                den |-> Len(assigned[j])]
                 IN  [center |-> center, points |-> assigned[j],
                      radius |-> MaxDistance(points, assigned[j], center,
                                             Len(assigned[j]))]]

\* a loop that stops after its first pass
Iterate_Once(points, clusters, n) ==
    IF n = 0 THEN clusters ELSE Iteration(points, clusters)

\* the loop body run n times
RECURSIVE Iterate(_, _, _)
Iterate(points, clusters, n) ==
    IF n = 0 THEN clusters ELSE Iterate(points, Iteration(points, clusters), n - 1)

\* cluster => cluster.points.length > 0
HasPoints(cluster) == cluster.points # <<>>

\* clusters.filter(cluster => cluster.points.length > 0), over the first n
RECURSIVE FilterNonEmpty(_, _)
FilterNonEmpty(clusters, n) ==
    IF n = 0 THEN <<>>
    ELSE IF HasPoints(clusters[n])
         THEN Append(FilterNonEmpty(clusters, n - 1), clusters[n])
         ELSE FilterNonEmpty(clusters, n - 1)

\* a performClustering that returns the clusters without points as well
performClustering_Unfiltered(points, seeds) ==
    IF Len(points) = 0 THEN <<>>
    ELSE Iterate(points, SeedClusters(points, seeds), Iterations)

\* performClustering(points, k), seeds being the k picks of Math.random()
performClustering(points, seeds) ==
    IF Len(points) = 0 THEN <<>>
    ELSE LET clusters == Iterate(points, SeedClusters(points, seeds), Iterations)
         IN  FilterNonEmpty(clusters, Len(clusters))

\* analyzeLocationClusters: the report of each cluster
analyzeLocationClusters(points, seeds) ==
    LET clusters == performClustering(points, seeds)
    IN  [j \in 1..Len(clusters) |->
            [center |-> clusters[j].center, radius |-> clusters[j].radius,
             points |-> clusters[j].points,
             incidentCount |-> Len(clusters[j].points)]]

\* the latitudes of the batches: a group at 0..1 and a group at 100..101
GroupA == {0, 1}
GroupB == {100, 101}
Lats == GroupA \cup GroupB

\* the batches, in ascending order of latitude (each point is assigned on
\* its own and a mean does not depend on the order), the empty one included
Batches ==
    UNION {{b \in [1..n -> Lats] : \A i \in 1..(n - 1) : b[i] <= b[i + 1]} :
               n \in 0..MaxBatch}

\* the number of clusters asked for, the parameter k of performClustering
\* (analyzeLocationClusters passes 5)
ClusterCounts == {2, 3}

\* the picks of Math.floor(Math.random() * points.length), 1-based
SeedsFor(points, k) ==
    IF Len(points) = 0 THEN {[j \in 1..k |-> 1]}
    ELSE [1..k -> 1..Len(points)]

KMeansInputs ==
    UNION {{[kind |-> "kmeans", points |-> b, k |-> k, seeds |-> sd] :
                sd \in SeedsFor(b, k)} : b \in Batches, k \in ClusterCounts}

InitKMeans ==
    /\ isInitialized = FALSE
    /\ sensorConfigs = Empty
    /\ streamingIntervals = Empty
    /\ timers = <<>>
    /\ fired = NoHandle
    /\ envelope = NoEnvelope
    /\ lastMsg = NoMsg
    /\ deactivated = {}
    /\ msgCount = 0
    /\ running = TRUE
    /\ alertThresholds = <<>>
    /\ NoSubscribers
    /\ cleaned = FALSE
    /\ qIn = NoInput /\ qOut = NoReading
    /\ tIn = NoInput /\ tOut = Pending
    /\ cIn \in KMeansInputs /\ cOut = [done |-> FALSE]

\* the step of every geo-analytics specification leaves the service alone
GeoOnly ==
    UNCHANGED <<isInitialized, sensorConfigs, streamingIntervals, timers, fired,
                envelope, lastMsg, deactivated, msgCount, running,
                alertThresholds, hubVars, cleaned, qIn, qOut, tIn, tOut, cIn>>

\* analyzeLocationClusters(locations)
Clusterize ==
    /\ cIn.kind = "kmeans"
    /\ ~cOut.done
    /\ cOut' = [done |-> TRUE,
                clusters |-> analyzeLocationClusters(cIn.points, cIn.seeds)]
    /\ GeoOnly

NextKMeans == Clusterize

SpecKMeans == InitKMeans /\ [][NextKMeans]_vars

-----------------------------------------------------------------------------
(* SpecProximity: GeoAnalyticsService.analyzeProximityRisks on bounded
   catalogs.  Query point and polygon vertices lie on one meridian; a
   position and a distance are in tenths of a kilometre.  A score before
   rounding is the fraction num / den. *)

\* the largest catalog of risk zones
MaxZones == 2

\* calculateDistance(lat, lon, vertex.lat, vertex.lon)
calculateDistance(from, to) == Abs(to - from)

\* a filter that leaves out the zone that lies at exactly the radius
WithinRadius_Strict(item, radius) == item.distance < radius

\* item.distance <= radius
WithinRadius(item, radius) == item.distance <= radius

\* riskZones.map(zone => ({ zone, distance })) for the zones 1..n
RECURSIVE MeasureZones(_, _, _)
MeasureZones(zones, lat, n) ==
    IF n = 0 THEN <<>>
    ELSE Append(MeasureZones(zones, lat, n - 1),
                [zone |-> zones[n],
                 distance |-> calculateDistance(lat, zones[n].polygon[1])])

\* .filter(item => item.distance <= radius) for the items 1..n
RECURSIVE FilterNear(_, _, _)
FilterNear(items, radius, n) ==
    IF n = 0 THEN <<>>
    ELSE IF WithinRadius(items[n], radius)
         THEN Append(FilterNear(items, radius, n - 1), items[n])
         ELSE FilterNear(items, radius, n - 1)

\* item goes behind the entries of the sorted sequence that are not
\* farther than it: Array.prototype.sort is stable
RECURSIVE InsertByDistance(_, _, _)
InsertByDistance(sorted, item, n) ==
    IF n = 0 THEN <<item>> \o sorted
    ELSE IF sorted[n].distance <= item.distance
         THEN SubSeq(sorted, 1, n) \o <<item>> \o SubSeq(sorted, n + 1, Len(sorted))
         ELSE InsertByDistance(sorted, item, n - 1)

\* .sort((a, b) => a.distance - b.distance) for the items 1..n
RECURSIVE SortByDistance(_, _)
SortByDistance(items, n) ==
    IF n = 0 THEN <<>>
    ELSE LET sorted == SortByDistance(items, n - 1)
         IN  InsertByDistance(sorted, items[n], Len(sorted))

Max(a, b) == IF a > b THEN a ELSE b
Min(a, b) == IF a < b THEN a ELSE b

\* a multiplier that ranks the levels the wrong way round
riskMultiplier_Inverted(riskLevel) ==
    IF riskLevel = "high" THEN 1 ELSE IF riskLevel = "medium" THEN 2 ELSE 3

\* riskLevel === 'high' ? 3 : riskLevel === 'medium' ? 2 : 1
riskMultiplier(riskLevel) ==
    IF riskLevel = "high" THEN 3 ELSE IF riskLevel = "medium" THEN 2 ELSE 1

\* riskScore += Math.max(0, (radius - distance) / radius) * multiplier * 20
\* over the items 1..n: the numerator of the sum over the denominator radius
RECURSIVE SumRisk(_, _, _)
SumRisk(nearby, radius, n) ==
    IF n = 0 THEN 0
    ELSE SumRisk(nearby, radius, n - 1)
           + Max(0, radius - nearby[n].distance)
               * riskMultiplier(nearby[n].zone.riskLevel) * 20

\* Math.round of num / den, den > 0: the nearest integer, a half going up
Round(num, den) == (2 * num + den) \div (2 * den)

Advice(text) == [text |-> text, zone |-> 0]

\* generateLocationRecommendations(riskScore, nearbyZones), riskScore being
\* the sum num / den as it is before rounding and capping
generateLocationRecommendations(num, den, nearby) ==
    (IF num > 70 * den
     THEN <<Advice("High risk area - consider relocation during storm season"),
            Advice("Maintain emergency kit and evacuation plan")>>
     ELSE IF num > 40 * den
     THEN <<Advice("Moderate risk - stay informed about weather conditions"),
            Advice("Review and practice evacuation procedures")>>
     ELSE <<Advice("Low risk area - maintain standard coastal preparedness")>>)
    \o (IF Len(nearby) > 0
        THEN <<[text |-> "Monitor conditions in nearby", zone |-> nearby[1].zone.id]>>
        ELSE <<>>)
    \o <<Advice("Install BlueGuard mobile alerts for real-time updates")>>

\* analyzeProximityRisks(lat, lon, radius) over the catalog zones
analyzeProximityRisks(zones, lat, radius) ==
    LET measured == MeasureZones(zones, lat, Len(zones))
        near     == FilterNear(measured, radius, Len(measured))
        nearby   == SortByDistance(near, Len(near))
        num      == SumRisk(nearby, radius, Len(nearby))
    IN  [riskScore |-> Min(100, Round(num, radius)),
         nearbyRiskZones |-> nearby,
         recommendations |-> generateLocationRecommendations(num, radius, nearby)]

\* the zones of the catalogs: the first vertex at 0, 3.3, 5, 10 or 13 km,
\* the second vertex 4 km nearer to the origin
RiskLevels == {"low", "medium", "high"}
FirstVertices == {0, 33, 50, 100, 130}
ZoneAt(id, level, v) == [id |-> id, riskLevel |-> level, polygon |-> <<v, v - 40>>]

\* the catalogs: none to MaxZones zones, the zone at place i having id i
ZoneCatalogs ==
    UNION {{[i \in 1..n |-> ZoneAt(i, levels[i], vertices[i])] :
                levels \in [1..n -> RiskLevels], vertices \in [1..n -> FirstVertices]} :
               n \in 0..MaxZones}

\* the search radii: 10 km, the default, and 5 km
SearchRadii == {100, 50}

ProximityInputs ==
    {[kind |-> "proximity", zones |-> z, lat |-> 0, radius |-> r] :
        z \in ZoneCatalogs, r \in SearchRadii}

InitProximity ==
    /\ isInitialized = FALSE
    /\ sensorConfigs = Empty
    /\ streamingIntervals = Empty
    /\ timers = <<>>
    /\ fired = NoHandle
    /\ envelope = NoEnvelope
    /\ lastMsg = NoMsg
    /\ deactivated = {}
    /\ msgCount = 0
    /\ running = TRUE
    /\ alertThresholds = <<>>
    /\ NoSubscribers
    /\ cleaned = FALSE
    /\ qIn = NoInput /\ qOut = NoReading
    /\ tIn = NoInput /\ tOut = Pending
    /\ cIn \in ProximityInputs /\ cOut = [done |-> FALSE]

AssessProximity ==
    /\ cIn.kind = "proximity"
    /\ ~cOut.done
    /\ cOut' = [done |-> TRUE,
                report |-> analyzeProximityRisks(cIn.zones, cIn.lat, cIn.radius)]
    /\ GeoOnly

NextProximity == AssessProximity

SpecProximity == InitProximity /\ [][NextProximity]_vars

-----------------------------------------------------------------------------
(* SpecEvacuation: GeoAnalyticsService.getEvacuationAnalysis on bounded
   catalogs; positions and distances in tenths of a kilometre on one
   meridian, as in SpecProximity. *)

\* nearestRoute = null, minDistance = Infinity
NoRoute == [found |-> FALSE]

\* 20 km
ALTERNATIVE_RANGE == 200

\* for (const zone of riskZones) for (const route of zone.evacuationRoutes):
\* the routes in the order the two loops meet them
RECURSIVE AllRoutes(_, _)
AllRoutes(zones, n) ==
    IF n = 0 THEN <<>> ELSE AllRoutes(zones, n - 1) \o zones[n].evacuationRoutes

\* estimatedTime: Math.round(distance * 3), distance in kilometres
EstimatedTime(distance) == Round(3 * distance, 10)

\* a comparison that lets a later route at the same distance win
Closer_OrEqual(distance, nearest) ==
    ~nearest.found \/ distance <= nearest.distance

\* distance < minDistance
Closer(distance, nearest) ==
    ~nearest.found \/ distance < nearest.distance

\* the nearest route after the routes 1..n
RECURSIVE NearestRoute(_, _, _)
NearestRoute(routes, lat, n) ==
    IF n = 0 THEN NoRoute
    ELSE LET before   == NearestRoute(routes, lat, n - 1)
             distance == calculateDistance(lat, routes[n].coordinates[1])
         IN  IF Closer(distance, before)
             THEN [found |-> TRUE, name |-> routes[n].name, distance |-> distance,
                   estimatedTime |-> EstimatedTime(distance),
                   coordinates |-> routes[n].coordinates]
             ELSE before

\* alternativeRoutes after the routes 1..n
RECURSIVE AlternativeRoutes(_, _, _)
AlternativeRoutes(routes, lat, n) ==
    IF n = 0 THEN <<>>
    ELSE LET before   == AlternativeRoutes(routes, lat, n - 1)
             distance == calculateDistance(lat, routes[n].coordinates[1])
         IN  IF distance <= ALTERNATIVE_RANGE
             THEN Append(before,
                         [name |-> routes[n].name, distance |-> distance,
                          estimatedTime |-> EstimatedTime(distance),
                          capacity |-> routes[n].capacity])
             ELSE before

\* getEvacuationAnalysis(lat, lon) over the catalog zones
getEvacuationAnalysis(zones, lat) ==
    LET routes       == AllRoutes(zones, Len(zones))
        alternatives == AlternativeRoutes(routes, lat, Len(routes))
        sorted       == SortByDistance(alternatives, Len(alternatives))
    IN  [nearestRoute |-> NearestRoute(routes, lat, Len(routes)),
         alternativeRoutes |-> SubSeq(sorted, 1, Min(3, Len(sorted)))]

\* the routes of a zone: none to two, starting 1.5, 20 or 25 km from the
\* origin; route r of zone z has the name 10 z + r and a capacity of its own
RouteStarts == {15, 200, 250}
RouteAt(z, r, start) ==
    [name |-> 10 * z + r, coordinates |-> <<start, start + 40>>,
     capacity |-> 1000 * (10 * z + r)]
RoutesOfZone(z) ==
    UNION {{[r \in 1..n |-> RouteAt(z, r, starts[r])] : starts \in [1..n -> RouteStarts]} :
               n \in 0..2}

RECURSIVE RouteCatalogsOf(_)
RouteCatalogsOf(n) ==
    IF n = 0 THEN {<<>>}
    ELSE {Append(zones, [id |-> n, evacuationRoutes |-> routes]) :
              zones \in RouteCatalogsOf(n - 1), routes \in RoutesOfZone(n)}

\* the catalogs: none to MaxZones zones
RouteCatalogs == UNION {RouteCatalogsOf(n) : n \in 0..MaxZones}

EvacuationInputs ==
    {[kind |-> "evacuation", zones |-> z, lat |-> 0] : z \in RouteCatalogs}

InitEvacuation ==
    /\ isInitialized = FALSE
    /\ sensorConfigs = Empty
    /\ streamingIntervals = Empty
    /\ timers = <<>>
    /\ fired = NoHandle
    /\ envelope = NoEnvelope
    /\ lastMsg = NoMsg
    /\ deactivated = {}
    /\ msgCount = 0
    /\ running = TRUE
    /\ alertThresholds = <<>>
    /\ NoSubscribers
    /\ cleaned = FALSE
    /\ qIn = NoInput /\ qOut = NoReading
    /\ tIn = NoInput /\ tOut = Pending
    /\ cIn \in EvacuationInputs /\ cOut = [done |-> FALSE]

ResolveEvacuation ==
    /\ cIn.kind = "evacuation"
    /\ ~cOut.done
    /\ cOut' = [done |-> TRUE, analysis |-> getEvacuationAnalysis(cIn.zones, cIn.lat)]
    /\ GeoOnly

NextEvacuation == ResolveEvacuation

SpecEvacuation == InitEvacuation /\ [][NextEvacuation]_vars

-----------------------------------------------------------------------------
(* Claims about the scheduler (Spec) *)

\* C1: after initialize, every device whose active flag is true has exactly
\* one live timer whose period is its stored updateInterval, and every device
\* whose active flag is false has no live timer.
C1_ActiveIffOneTimer ==
    isInitialized =>
        \A k \in DOMAIN sensorConfigs :
            IF sensorConfigs[k].isActive
            THEN /\ Cardinality(LiveTimers(k)) = 1
                 /\ \A h \in LiveTimers(k) :
                        timers[h].delay = sensorConfigs[k].updateInterval * 1000
            ELSE LiveTimers(k) = {}

\* C2: once a reconfiguration has set a ticking device's active flag to
\* false, no tick fires and no tick publishes an envelope for that device
\* until a reconfiguration stores it active again.
C2_NoTickWhileDeactivated ==
    fired # NoHandle =>
        /\ timers[fired].sensorId \notin deactivated
        /\ envelope # NoEnvelope => envelope.sensorId \notin deactivated

\* C3 (its first part): a reconfiguration that sets an inactive device's
\* active flag to true gives the device a fresh live timer in that step.
\* Without it no tick of the device can fire again.
C3_ReactivationStartsTimer ==
    [][\A k \in DOMAIN sensorConfigs :
          (k \in DOMAIN sensorConfigs' /\ ~sensorConfigs[k].isActive
                /\ sensorConfigs'[k].isActive)
          => \E h \in (DOMAIN timers') \ (DOMAIN timers) :
                timers'[h].sensorId = k /\ timers'[h].live]_vars

\* C4: a step that changes the stored update interval of an active device
\* cancels the timers the device had and leaves it exactly one live timer,
\* created in that step, with the new interval; no device ever has two live
\* timers, and a callback only runs for a live timer.
C4_IntervalChangeReplacesTimer ==
    /\ [](\A k \in DOMAIN sensorConfigs : Cardinality(LiveTimers(k)) <= 1)
    /\ [](fired # NoHandle => timers[fired].live)
    /\ [][\A k \in DOMAIN sensorConfigs :
            (k \in DOMAIN sensorConfigs' /\ sensorConfigs[k].isActive
                /\ sensorConfigs'[k].updateInterval # sensorConfigs[k].updateInterval)
            => /\ \A h \in DOMAIN timers :
                    timers[h].sensorId = k => ~timers'[h].live
               /\ \E h \in (DOMAIN timers') \ (DOMAIN timers) :
                    /\ timers'[h].sensorId = k
                    /\ timers'[h].live
                    /\ timers'[h].delay = sensorConfigs'[k].updateInterval * 1000
                    /\ \A g \in (DOMAIN timers') \ {h} :
                          timers'[g].sensorId = k => ~timers'[g].live]_vars

\* C5: a patch whose update interval is <= 0 is rejected, so every stored
\* configuration has an update interval > 0.
C5_StoredIntervalsPositive ==
    \A k \in DOMAIN sensorConfigs : sensorConfigs[k].updateInterval > 0

\* C6: a sensor_config_update or maintenance_update naming a device that is
\* not in the registry changes no configuration, creates and cancels no
\* timer, publishes nothing and does not end the process.
C6_UnknownDeviceIsNoOp ==
    [][(lastMsg'.type \in {"sensor_config_update", "maintenance_update"}
            /\ lastMsg'.sensorId \notin DOMAIN sensorConfigs)
        => /\ sensorConfigs' = sensorConfigs
           /\ streamingIntervals' = streamingIntervals
           /\ timers' = timers
           /\ envelope' = NoEnvelope
           /\ running']_vars

\* a message for an unregistered device has been handled
C6_Witness ==
    /\ lastMsg.type = "sensor_config_update"
    /\ lastMsg.sensorId = UnknownId
    /\ msgCount = 2
    /\ UnknownId \notin DOMAIN sensorConfigs

\* what the scheduler holds for device b: its handle and its timers
TimersOf(ts, b) == {<<h, ts[h]>> : h \in {g \in DOMAIN ts : ts[g].sensorId = b}}
HandleOf(si, b) == IF b \in DOMAIN si THEN si[b] ELSE NoHandle

\* C7: a sensor_config_update or maintenance_update addressed to device A
\* leaves every other device B as it was: B's stored configuration, B's
\* timer handle and B's timers (their period, the config they close over,
\* whether they are live).
C7_OtherDevicesUntouched ==
    [][\A b \in DOMAIN sensorConfigs :
          (lastMsg'.type \in {"sensor_config_update", "maintenance_update"}
                /\ lastMsg'.sensorId # b)
          => /\ b \in DOMAIN sensorConfigs'
             /\ sensorConfigs'[b] = sensorConfigs[b]
             /\ HandleOf(streamingIntervals', b) = HandleOf(streamingIntervals, b)
             /\ TimersOf(timers', b) = TimersOf(timers, b)]_vars

\* device A has had its timer restarted and been deactivated while device B
\* still ticks at its own period
C7_Witness ==
    /\ lastMsg = [type |-> "sensor_config_update", sensorId |-> "wave_001"]
    /\ ~sensorConfigs["wave_001"].isActive
    /\ sensorConfigs["wave_001"].updateInterval = 10
    /\ \E h \in LiveTimers("seismic_001") : timers[h].delay = 5000

-----------------------------------------------------------------------------
(* Claims about the reading synthesizer (SpecQuality) *)

\* C8: a seismic reading produced by the 5% spike branch carries quality
\* 'excellent' whatever the days since service.
C8_SpikeIsExcellent ==
    FromSpike => qOut.quality = "excellent"

\* C9: for a reading not produced by the seismic spike branch the quality is
\* poor if d > 30, fair if 14 < d <= 30, good if 7 < d <= 14 and excellent
\* if d <= 7, d the days since the last maintenance, for every device type
\* and every draw.
C9_QualityByAge ==
    (qOut # NoReading /\ ~FromSpike) =>
        /\ (Elapsed > 30 * DAY) => qOut.quality = "poor"
        /\ (14 * DAY < Elapsed /\ Elapsed <= 30 * DAY) => qOut.quality = "fair"
        /\ (7 * DAY < Elapsed /\ Elapsed <= 14 * DAY) => qOut.quality = "good"
        /\ (Elapsed <= 7 * DAY) => qOut.quality = "excellent"

\* a wave reading 40 days after service, graded poor
C9_Witness ==
    /\ qOut # NoReading
    /\ ~FromSpike
    /\ qIn.config.type = "wave"
    /\ Elapsed = 40 * DAY
    /\ qOut.quality = "poor"

-----------------------------------------------------------------------------
(* Claims about the threshold engine (SpecThreshold) *)

\* C10: for every 'above' rule that applies to the reading and has a max
\* bound (0 and negative bounds included), the alerts hold exactly one alert
\* of that rule, with the rule's severity, when the field value > max, and
\* none when the value <= max.
C10_AboveFiresIffGreater ==
    tOut.done =>
        \A i \in 1..Len(alertThresholds) :
            (/\ alertThresholds[i].condition = "above"
             /\ "maxValue" \in DOMAIN alertThresholds[i]
             /\ Applies(i))
            => IF FieldOf(i) > alertThresholds[i].maxValue
               THEN /\ Cardinality(AlertsOf(i)) = 1
                    /\ \A j \in AlertsOf(i) :
                          /\ tOut.alerts[j].threshold = alertThresholds[i]
                          /\ tOut.alerts[j].value = FieldOf(i)
               ELSE AlertsOf(i) = {}

\* C11: for every 'outside' rule that applies to the reading and has both
\* bounds, min <= max (0 included), an alert of that rule is emitted if and
\* only if the value < min or the value > max.
C11_OutsideFiresIffOutOfRange ==
    tOut.done =>
        \A i \in 1..Len(alertThresholds) :
            (/\ alertThresholds[i].condition = "outside"
             /\ "minValue" \in DOMAIN alertThresholds[i]
             /\ "maxValue" \in DOMAIN alertThresholds[i]
             /\ alertThresholds[i].minValue <= alertThresholds[i].maxValue
             /\ Applies(i))
            => (AlertsOf(i) # {}
                    <=> (\/ FieldOf(i) < alertThresholds[i].minValue
                         \/ FieldOf(i) > alertThresholds[i].maxValue))

\* the reading's value violates rule i, in the words of the rule kinds:
\* above: value > max; below: value < min; outside: value < min or > max
Exceeds(i) ==
    LET th == alertThresholds[i]
    IN  CASE th.condition = "above" ->
                "maxValue" \in DOMAIN th /\ FieldOf(i) > th.maxValue
          [] th.condition = "below" ->
                "minValue" \in DOMAIN th /\ FieldOf(i) < th.minValue
          [] th.condition = "outside" ->
                /\ "minValue" \in DOMAIN th /\ "maxValue" \in DOMAIN th
                /\ (FieldOf(i) < th.minValue \/ FieldOf(i) > th.maxValue)
          [] OTHER -> FALSE

\* the rules of the table the reading violates, in rule order
RECURSIVE ViolatedUpTo(_)
ViolatedUpTo(n) ==
    IF n = 0 THEN <<>>
    ELSE IF Applies(n) /\ Exceeds(n) THEN Append(ViolatedUpTo(n - 1), n)
    ELSE ViolatedUpTo(n - 1)

\* C12: with the rule table the service holds, the alerts are exactly one
\* entry per violated rule of the reading's device type, in rule order, each
\* referring to its own rule: a wave height above 4.0 and 6.0 gives two
\* alerts, one above 4.0 only gives one.
C12_OneAlertPerViolatedRule ==
    (tOut.done /\ alertThresholds = setupAlertThresholds) =>
        LET violated == ViolatedUpTo(Len(alertThresholds))
        IN  /\ Len(tOut.alerts) = Len(violated)
            /\ \A j \in 1..Len(violated) :
                  /\ tOut.alerts[j].rule = violated[j]
                  /\ tOut.alerts[j].threshold = alertThresholds[violated[j]]
                  /\ tOut.alerts[j].parameter = alertThresholds[violated[j]].parameter

\* a wave height of 6.1 has raised the 'high' and the 'critical' alert
C12_Witness ==
    /\ tOut.done
    /\ alertThresholds = setupAlertThresholds
    /\ tIn.reading.sensorId = "wave_001"
    /\ tIn.reading.data = [height |-> Num(61)]
    /\ Len(tOut.alerts) = 2
    /\ tOut.alerts[1].threshold.severity = "high"
    /\ tOut.alerts[2].threshold.severity = "critical"

\* C13: a rule whose field the reading lacks or holds as a non-number gives
\* no alert and does not keep the other rules from being evaluated; rules of
\* another device type are never applied; a reading of an unregistered
\* device gives no alerts.
C13_SkippedRulesAreSilent ==
    tOut.done =>
        /\ tIn.reading.sensorId \notin DOMAIN sensorConfigs => tOut.alerts = <<>>
        /\ \A j \in 1..Len(tOut.alerts) : Applies(tOut.alerts[j].rule)
        /\ \A i \in 1..Len(alertThresholds) :
              (Applies(i) /\ Triggered(alertThresholds[i], FieldOf(i)))
              => AlertsOf(i) # {}

\* the second rule's field is missing from the reading and the first rule
\* has raised its alert all the same
C13_Witness ==
    /\ tOut.done
    /\ Len(alertThresholds) = 2
    /\ tIn.reading.sensorId = "wave_001"
    /\ alertThresholds[2].parameter \notin DOMAIN tIn.reading.data
    /\ Len(tOut.alerts) = 1
    /\ tOut.alerts[1].rule = 1

\* C19: a tick whose synthesis throws (the device's last-maintenance value is
\* not a Date) is contained to that tick: the service keeps running, so the
\* live timers of the other devices can still fire.
C19_TickFailureContained ==
    (/\ fired # NoHandle
     /\ Throws(timers[fired].config)
     /\ \E h \in DOMAIN timers :
            timers[h].live /\ timers[h].sensorId # timers[fired].sensorId)
    => running

\* the sockets a broadcast finds in connectedClients with readyState OPEN
OpenClients == {c \in connectedClients : readyState[c] = "OPEN"}

\* C14: in a step that broadcasts an envelope, every socket that is in the
\* subscriber set and open gets the envelope, every other socket gets
\* nothing, and the service keeps running: a socket that is not open does
\* not keep the others from receiving and raises nothing into the tick.
C14_NonOpenSkipped ==
    [][published' = published + 1 =>
          /\ running'
          /\ \A c \in OpenClients :
                inbox'[c] = Append(inbox[c], Message(published', envelope'))
          /\ \A c \in Sockets \ OpenClients : inbox'[c] = inbox[c]]_vars

\* a socket that was closing and still in the subscriber set was passed
\* over by a broadcast that reached the other, open socket
C14_Witness ==
    /\ "ws1" \in connectedClients
    /\ readyState["ws1"] = "CLOSING"
    /\ readyState["ws2"] = "OPEN"
    /\ envelope.kind = "sensor_reading"
    /\ closedAt["ws1"] < published
    /\ Len(inbox["ws2"]) > 0
    /\ inbox["ws2"][Len(inbox["ws2"])].seq = published
    /\ \A i \in 1..Len(inbox["ws1"]) : inbox["ws1"][i].seq < published

\* C15: after a step that broadcast an envelope, the subscriber set holds
\* only sockets that were open: the broadcast has removed the others.
C15_ClosedSubscriberRemoved ==
    envelope.kind = "sensor_reading" =>
        \A c \in connectedClients : readyState[c] = "OPEN"

\* the number of the last envelope socket c was open for
LastFor(c) == IF readyState[c] = "OPEN" THEN published ELSE closedAt[c]

\* C16: a socket has received exactly the envelopes broadcast from its
\* connection until it ceased to be open, each once and none from before.
C16_ExactlyWhileConnected ==
    \A c \in Sockets :
        /\ Len(inbox[c]) = LastFor(c) - connectedAt[c]
        /\ \A i \in 1..Len(inbox[c]) : inbox[c][i].seq = connectedAt[c] + i

\* a socket connected after the first envelope, received one, has closed,
\* and a later envelope went out without it
C16_Witness ==
    \E c \in Sockets :
        /\ readyState[c] = "CLOSED"
        /\ connectedAt[c] >= 1
        /\ Len(inbox[c]) >= 1
        /\ published > closedAt[c]

\* C17: on every socket, the readings of one device arrive in the order
\* they were broadcast and with strictly increasing timestamps.
C17_TimestampsIncrease ==
    \A c \in Sockets :
        \A i, j \in 1..Len(inbox[c]) :
            (i < j /\ inbox[c][i].sensorId = inbox[c][j].sensorId)
            => /\ inbox[c][i].seq < inbox[c][j].seq
               /\ inbox[c][i].timestamp < inbox[c][j].timestamp

\* C18: once cleanup() has been called, the timer table is empty, no timer
\* is live and no tick fires, whatever messages and initialize calls follow.
C18_NothingAfterCleanup ==
    cleaned =>
        /\ streamingIntervals = Empty
        /\ \A h \in DOMAIN timers : ~timers[h].live
        /\ fired = NoHandle

\* C20: a cluster of radius 0 is reported with risk level 'low'; its risk
\* is not the outcome of a division by a zero area.
C20_ZeroRadiusIsLow ==
    (cOut # "none" /\ cIn.cluster.radius = 0) => cOut = "low"

\* C27: a tick synthesizes its reading from the configuration the registry
\* holds for the device at that moment: the type and the last-maintenance
\* date the timer's callback reads are those of the registry entry, which
\* the threshold lookup reads.
C27_TickReadsRegistryConfig ==
    fired # NoHandle =>
        LET used   == timers[fired].config
            stored == sensorConfigs[timers[fired].sensorId]
        IN  /\ used.type = stored.type
            /\ used.lastMaintenance = stored.lastMaintenance

\* C28: once initialized, the registry holds exactly the devices it was
\* set up with, each under the key that is its id: no message removes or
\* adds a device or changes a device's id.
C28_RegistryKeysAreIds ==
    isInitialized =>
        /\ DOMAIN sensorConfigs = DefaultIds
        /\ \A key \in DOMAIN sensorConfigs : sensorConfigs[key].id = key

\* the timers as the runtime holds them: handle, device, delay, the
\* configuration closed over, live or cleared
TimerTable ==
    [h \in DOMAIN timers |->
        [sensorId |-> timers[h].sensorId, delay |-> timers[h].delay,
         config |-> timers[h].config, live |-> timers[h].live]]

\* C29: a message that is not valid JSON, has an unknown type or makes its
\* handler throw leaves the contents of the registry, the timers and the
\* subscriber set as they were, sends nothing to any subscriber, and the
\* service keeps running.
C29_MalformedMessageIsNoOp ==
    [][lastMsg'.type \in MalformedKinds =>
          /\ sensorConfigs' = sensorConfigs
          /\ TimerTable' = TimerTable
          /\ streamingIntervals' = streamingIntervals
          /\ connectedClients' = connectedClients
          /\ inbox' = inbox
          /\ published' = published
          /\ envelope' = NoEnvelope
          /\ running']_vars

\* a sensor_config_update without config has been handled (its device's
\* timer no longer shares the stored object), and a later tick has been
\* published to the subscriber that is still open
C29_Witness ==
    /\ msgCount >= 1
    /\ \E h \in DOMAIN timers : ~timers[h].aliased
    /\ fired # NoHandle
    /\ envelope.kind = "sensor_reading"
    /\ \E c \in connectedClients :
          /\ readyState[c] = "OPEN"
          /\ Len(inbox[c]) > 0
          /\ inbox[c][Len(inbox[c])].seq = published

\* the indices of the points a reported cluster holds
Members(cluster) == {cluster.points[i] : i \in 1..Len(cluster.points)}

\* C21: the clusters returned partition the batch: every point is in
\* exactly one cluster, no cluster is empty, there are at most k clusters,
\* a cluster's point count is the size of its set of points and the counts
\* add up to the batch; an empty batch gives no clusters.
C21_ClustersPartitionInput ==
    cOut.done =>
        LET clusters == cOut.clusters
            n        == Len(cIn.points)
        IN  /\ n = 0 => clusters = <<>>
            /\ Len(clusters) <= cIn.k
            /\ \A i \in 1..n :
                  Cardinality({j \in 1..Len(clusters) : i \in Members(clusters[j])}) = 1
            /\ \A j \in 1..Len(clusters) :
                  /\ clusters[j].points # <<>>
                  /\ Members(clusters[j]) \subseteq 1..n
                  /\ clusters[j].incidentCount = Cardinality(Members(clusters[j]))
            /\ \A j1, j2 \in 1..Len(clusters) :
                  j1 # j2 => Members(clusters[j1]) \cap Members(clusters[j2]) = {}

\* three centres were drawn for a batch of four points and two clusters,
\* neither of them empty, came back: the third was dropped
C21_Witness ==
    /\ cOut.done
    /\ cIn.k = 3
    /\ Len(cIn.points) = 4
    /\ Len(cOut.clusters) = 2
    /\ \E j \in 1..Len(cOut.clusters) : cOut.clusters[j].incidentCount >= 2

\* the points of the batch that lie in a group
InGroup(group) == {i \in 1..Len(cIn.points) : cIn.points[i] \in group}

\* the centre of the cluster lies between the extreme points of the set
Within(cluster, members) ==
    \E lo, hi \in members :
        /\ cIn.points[lo] * cluster.center.den <= cluster.center.num
        /\ cluster.center.num <= cIn.points[hi] * cluster.center.den

InRange == {i \in 1..Len(cIn.zones) :
               Abs(cIn.zones[i].polygon[1] - cIn.lat) <= cIn.radius}

\* the weight of a level: 3, 2, 1 for high, medium, low
Weight(level) == CASE level = "high" -> 3 [] level = "medium" -> 2 [] OTHER -> 1

\* radius times S: the sum over the zones of a set of (radius - distance) * w * 20
RECURSIVE WeightedSum(_)
WeightedSum(set) ==
    IF set = {} THEN 0
    ELSE LET i == CHOOSE x \in set : TRUE
         IN  Max(0, cIn.radius - Abs(cIn.zones[i].polygon[1] - cIn.lat))
                * Weight(cIn.zones[i].riskLevel) * 20
             + WeightedSum(set \ {i})

\* n is S rounded to the nearest integer, a half going up, S being num / den
IsRounded(n, num, den) == 2 * n * den - den <= 2 * num /\ 2 * num < 2 * n * den + den

\* C23: riskScore is min(100, round(S)), S summed over exactly the zones
\* whose first vertex is within the radius; it is an integer in 0..100; the
\* nearby list holds exactly those zones, each once, with its distance, in
\* ascending distance; with no zone in range, score 0 and an empty list.
C23_ScoreIsCappedRoundedSum ==
    cOut.done =>
        LET report == cOut.report
            nearby == report.nearbyRiskZones
        IN  /\ report.riskScore \in 0..100
            /\ \/ report.riskScore = 100 /\ 2 * WeightedSum(InRange) >= 199 * cIn.radius
               \/ IsRounded(report.riskScore, WeightedSum(InRange), cIn.radius)
            /\ {nearby[j].zone.id : j \in 1..Len(nearby)} = InRange
            /\ Len(nearby) = Cardinality(InRange)
            /\ \A j \in 1..Len(nearby) :
                  /\ nearby[j].zone = cIn.zones[nearby[j].zone.id]
                  /\ nearby[j].distance = Abs(nearby[j].zone.polygon[1] - cIn.lat)
            /\ \A j \in 1..(Len(nearby) - 1) : nearby[j].distance <= nearby[j + 1].distance
            /\ InRange = {} => report.riskScore = 0 /\ nearby = <<>>

\* two zones in range, the farther one first in the catalog and lying at
\* exactly the radius, have come back nearest first with a rounded score
C23_Witness ==
    /\ cOut.done
    /\ Len(cIn.zones) = 2
    /\ cIn.radius = 100
    /\ cIn.zones[1].polygon[1] = 100
    /\ cIn.zones[2].polygon[1] = 33
    /\ Len(cOut.report.nearbyRiskZones) = 2
    /\ cOut.report.nearbyRiskZones[1].zone.id = 2
    /\ cOut.report.riskScore \in 1..99

\* the catalog with zone i given another level or another first vertex
WithLevel(i, level) == [cIn.zones EXCEPT ![i].riskLevel = level]
WithVertex(i, v) == [cIn.zones EXCEPT ![i].polygon[1] = v]

\* C24: the score does not decrease when one zone's level is raised or
\* one zone's first vertex is moved nearer to the query point, the radius
\* and everything else being equal.
C24_ScoreMonotone ==
    cOut.done =>
        \A i \in 1..Len(cIn.zones) :
            /\ \A level \in RiskLevels :
                  Weight(level) > Weight(cIn.zones[i].riskLevel)
                  => analyzeProximityRisks(WithLevel(i, level), cIn.lat, cIn.radius).riskScore
                        >= cOut.report.riskScore
            /\ \A v \in FirstVertices :
                  Abs(v - cIn.lat) < Abs(cIn.zones[i].polygon[1] - cIn.lat)
                  => analyzeProximityRisks(WithVertex(i, v), cIn.lat, cIn.radius).riskScore
                        >= cOut.report.riskScore

\* a low zone in range scores above 0 and below the cap: raising it or
\* moving it nearer makes a difference
C24_Witness ==
    /\ cOut.done
    /\ Len(cIn.zones) = 2
    /\ cIn.zones[1].riskLevel = "low"
    /\ cIn.zones[1].polygon[1] = 50
    /\ cIn.radius = 100
    /\ cOut.report.riskScore \in 1..99
    /\ analyzeProximityRisks(WithLevel(1, "high"), cIn.lat, cIn.radius).riskScore
          > cOut.report.riskScore

\* the texts of the recommendations
Texts == {cOut.report.recommendations[j].text :
             j \in 1..Len(cOut.report.recommendations)}

\* C30: the recommendations agree with the riskScore of the same report:
\* evacuation guidance iff riskScore > 70, heightened awareness iff
\* 40 < riskScore <= 70, baseline guidance otherwise, and the call-out of
\* the nearest zone iff a zone is in range.
C30_AdviceMatchesScore ==
    cOut.done =>
        LET score == cOut.report.riskScore
        IN  /\ "Maintain emergency kit and evacuation plan" \in Texts <=> score > 70
            /\ "Review and practice evacuation procedures" \in Texts
                  <=> (40 < score /\ score <= 70)
            /\ "Low risk area - maintain standard coastal preparedness" \in Texts
                  <=> score <= 40
            /\ "Monitor conditions in nearby" \in Texts <=> InRange # {}

\* the routes of the catalog in catalog order, and a route's distance
CatalogRoutes == AllRoutes(cIn.zones, Len(cIn.zones))
RouteDistance(k) == Abs(CatalogRoutes[k].coordinates[1] - cIn.lat)

\* the routes that start within 20 km
Reachable == {k \in 1..Len(CatalogRoutes) : RouteDistance(k) <= 200}

\* the alternatives are routes that start within 20 km, in ascending
\* distance, at most 3, none nearer left out, each with its capacity
AlternativesAreNearest ==
    LET alts == cOut.analysis.alternativeRoutes
    IN  /\ Len(alts) = Min(3, Cardinality(Reachable))
        /\ \A j \in 1..(Len(alts) - 1) : alts[j].distance <= alts[j + 1].distance
        /\ \A j1, j2 \in 1..Len(alts) : j1 # j2 => alts[j1].name # alts[j2].name
        /\ \A j \in 1..Len(alts) :
              \E k \in Reachable :
                  /\ CatalogRoutes[k].name = alts[j].name
                  /\ RouteDistance(k) = alts[j].distance
                  /\ CatalogRoutes[k].capacity = alts[j].capacity
        /\ \A k \in Reachable :
              (\A j \in 1..Len(alts) : alts[j].name # CatalogRoutes[k].name)
              => \A j \in 1..Len(alts) : alts[j].distance <= RouteDistance(k)

\* C25: the alternatives are the routes within 20 km sorted by distance
\* and cut to 3, capacities as in the catalog, and a nearestRoute that is
\* not null is the first of the alternatives.
C25_AlternativesIncludeNearest ==
    cOut.done =>
        /\ AlternativesAreNearest
        /\ cOut.analysis.nearestRoute.found =>
              /\ cOut.analysis.alternativeRoutes # <<>>
              /\ cOut.analysis.alternativeRoutes[1].name = cOut.analysis.nearestRoute.name

\* C26: nearestRoute is the route of the catalog whose first coordinate is
\* nearest to the query point, the first one met among equals, with
\* estimatedTime = round(3 * distance); it is null exactly when the catalog
\* has no route.
C26_NearestIsFirstMinimum ==
    cOut.done =>
        LET nearest == cOut.analysis.nearestRoute
        IN  /\ nearest.found <=> Len(CatalogRoutes) > 0
            /\ nearest.found =>
                  \E k \in 1..Len(CatalogRoutes) :
                      /\ CatalogRoutes[k].name = nearest.name
                      /\ CatalogRoutes[k].coordinates = nearest.coordinates
                      /\ nearest.distance = RouteDistance(k)
                      /\ \A m \in 1..Len(CatalogRoutes) : RouteDistance(k) <= RouteDistance(m)
                      /\ \A m \in 1..(k - 1) : RouteDistance(k) < RouteDistance(m)
                      /\ IsRounded(nearest.estimatedTime, 3 * nearest.distance, 10)

\* two routes start at the same, smallest distance, behind a farther one:
\* the first of the two is the nearest, 1.5 km and 5 minutes away
C26_Witness ==
    /\ cOut.done
    /\ Len(CatalogRoutes) = 3
    /\ RouteDistance(1) = 200
    /\ RouteDistance(2) = 15
    /\ RouteDistance(3) = 15
    /\ cOut.analysis.nearestRoute.found
    /\ cOut.analysis.nearestRoute.name = CatalogRoutes[2].name
    /\ cOut.analysis.nearestRoute.estimatedTime = 5

====
